---- MODULE Spec2Model ----
(***************************************************************************)
(* The shift clock of medi-clock: the clockIn / clockOut resolvers, the    *)
(* perimeter check they share and the shift records they create and close; *)
(* and the LocationTracker that runs in a care worker's browser: geofence  *)
(* alerts, the location cache and its synchronisation.                     *)
(*                                                                         *)
(* Every resolver is an async function.  Between two awaits it runs        *)
(* without interruption; at an await (a record-store call) other requests  *)
(* may run.  One action of this model is one record-store call together    *)
(* with the synchronous code that follows it up to the next await.         *)
(*                                                                         *)
(* Units: a coordinate is in micro-degrees, a distance in millimetres, a   *)
(* time in milliseconds (the value of Date.getTime()), totalHours in       *)
(* hundredths of an hour.  A nullable column is a set: {} is null, {v} is  *)
(* the value v.  The server clock is taken to be non-decreasing.           *)
(***************************************************************************)
EXTENDS Integers, Sequences, FiniteSets, TLC

\* Number of requests (each handled once) a behaviour contains.
NumReqs == 2

Reqs == 1..NumReqs

VARIABLES
  now,     \* index in Instants of the latest reading taken of the server clock
  orgs,    \* organization table: id -> perimeter (locationLat, locationLng, perimeterRadius)
  shifts,  \* shift table: a sequence of rows, a row's id is its index
  req,     \* the requests: position in the handler and the handler's locals
  events,  \* what pubsub.publish has been called with, in order
  \* One care worker's browser, with its LocationTracker:
  isInsidePerimeter,   \* LocationTracker.isInsidePerimeter
  lastKnownLocation,   \* LocationTracker.lastKnownLocation ({} is null)
  locationCache,       \* LocationTracker.locationCache
  localStorage,        \* the item 'locationCache' of window.localStorage, parsed
  alerts,              \* the alerts handed to publishGeofenceAlert, in order
  checks,              \* the checkAutoClockOut calls awaiting their fetch
  online,              \* navigator.onLine
  passes,              \* the syncCachedLocations calls
  delivered,           \* the entries the server has received from uploadLocation, in order
  seen,                \* number of positions the browser has reported
  instances,           \* number of LocationTracker objects constructed
  watchId,             \* LocationTracker.watchId ({} is null)
  backgroundInterval,  \* LocationTracker.backgroundInterval ({} is null)
  syncInterval,        \* LocationTracker.syncInterval ({} is null)
  watches,             \* the ids of the browser's watchPosition registrations
  intervals,           \* the browser's setInterval registrations: id and callback
  locationUpdates      \* the POSTs of publishLocationUpdate, each with its state

serverVars == <<now, orgs, shifts, req, events>>

\* What startTracking and stopTracking register and clear.
timerVars == <<watchId, backgroundInterval, syncInterval, watches, intervals>>

trackerVars == <<isInsidePerimeter, lastKnownLocation, locationCache, localStorage,
                 alerts, checks, online, passes, delivered, seen, instances,
                 watchId, backgroundInterval, syncInterval, watches, intervals,
                 locationUpdates>>

vars == <<now, orgs, shifts, req, events,
          isInsidePerimeter, lastKnownLocation, locationCache, localStorage,
          alerts, checks, online, passes, delivered, seen, instances,
          watchId, backgroundInterval, syncInterval, watches, intervals,
          locationUpdates>>

----------------------------------------------------------------------------
(* Data *)

\* The readings new Date() can give, in milliseconds, in increasing order.
Instants == <<0, 18001, 3618000, 30600000>>

Facility == [lat |-> 40712800, lng |-> -74006000]
Near == [lat |-> 40713200, lng |-> -74006000]
Edge == [lat |-> 40712800, lng |-> -74007200]
Far == [lat |-> 40720000, lng |-> -74006000]

\* The coordinate of Facility with its longitude 360 degrees further west:
\* outside [-180, 180].
Wrapped == [lat |-> 40712800, lng |-> -434006000]

\* Two coordinates on opposite sides of the earth, (2.5, 0) and (-2.5, 180).
Origin == [lat |-> 2500000, lng |-> 0]
Antipode == [lat |-> -2500000, lng |-> 180000000]

\* The coordinates a clock request submits: Edge lies on the boundary of the
\* first perimeter below and outside the second, Far is the centre of the
\* second and outside the first.
Points == {Edge, Far}

\* The perimeters a manager sets; the first is the one organizations start with.
\* Its radius is the distance from Facility to Edge: Edge lies on its boundary.
PerimeterAtFacility == [lat |-> Facility.lat, lng |-> Facility.lng, radius |-> 101141]
PerimeterAtFar == [lat |-> Far.lat, lng |-> Far.lng, radius |-> 100000]
PerimeterInputs == {PerimeterAtFacility, PerimeterAtFar}

\* The perimeter of the second organization.
PerimeterAtAntipode == [lat |-> Antipode.lat, lng |-> Antipode.lng, radius |-> 100000]

OrgIds == {"o1", "o2"}

\* The organization rows at the start.
InitialOrgs ==
  [o \in OrgIds |-> IF o = "o1" THEN PerimeterAtFacility ELSE PerimeterAtAntipode]

\* The users of the first organization.
Users == {"w1", "m1"}

\* The users of the second organization.
OtherOrganizationUsers == {"w2", "m2"}

\* A care worker whose organizationId is null: the resolvers provide for it
\* ('User profile incomplete', 'User has no organization assigned').
UsersWithoutOrganization == {"w0"}

AllUsers == Users \cup UsersWithoutOrganization

EveryUser == AllUsers \cup OtherOrganizationUsers

UserTable ==
  [u \in EveryUser |->
     CASE u = "w1" -> [role |-> "CARE_WORKER", organizationId |-> "o1"]
       [] u = "m1" -> [role |-> "MANAGER", organizationId |-> "o1"]
       [] u = "w0" -> [role |-> "CARE_WORKER", organizationId |-> "null"]
       [] u = "w2" -> [role |-> "CARE_WORKER", organizationId |-> "o2"]
       [] u = "m2" -> [role |-> "MANAGER", organizationId |-> "o2"]]

ClockInOps == {"clockIn", "clockInByAuth0Id"}
ClockOutOps == {"clockOut", "clockOutByAuth0Id"}
Ops == ClockInOps \cup ClockOutOps

----------------------------------------------------------------------------
(* src/utils/location.ts *)

\* NaN: what Math.sqrt gives for a negative number, and what every operation
\* gives that has NaN for an operand.  It is no distance: a distance is at
\* least 0.
NaN == -1

\* The value of the Haversine expression, 6371e3 * 2 * atan2(sqrt a, sqrt (1-a)),
\* evaluated in IEEE double arithmetic for ordered pairs of the model's
\* coordinates and rounded to the millimetre: the pairs of the coordinates
\* around Facility, and the pairs of Origin and Antipode.  For Origin and
\* Antipode a, the sum of the squared sine of 2.5 degrees and the squared
\* cosine of 2.5 degrees, is 1.0000000000000002 in double arithmetic: 1 - a is
\* negative and its square root is NaN.
HaversineMm ==
     <<40712800, -74006000, 40712800, -74006000>> :> 0
  @@ <<40712800, -74006000, 40713200, -74006000>> :> 44478
  @@ <<40712800, -74006000, 40712800, -74007200>> :> 101141
  @@ <<40712800, -74006000, 40720000, -74006000>> :> 800603
  @@ <<40713200, -74006000, 40712800, -74006000>> :> 44478
  @@ <<40713200, -74006000, 40713200, -74006000>> :> 0
  @@ <<40713200, -74006000, 40712800, -74007200>> :> 110489
  @@ <<40713200, -74006000, 40720000, -74006000>> :> 756126
  @@ <<40712800, -74007200, 40712800, -74006000>> :> 101141
  @@ <<40712800, -74007200, 40713200, -74006000>> :> 110489
  @@ <<40712800, -74007200, 40712800, -74007200>> :> 0
  @@ <<40712800, -74007200, 40720000, -74006000>> :> 806966
  @@ <<40720000, -74006000, 40712800, -74006000>> :> 800603
  @@ <<40720000, -74006000, 40713200, -74006000>> :> 756126
  @@ <<40720000, -74006000, 40712800, -74007200>> :> 806966
  @@ <<40720000, -74006000, 40720000, -74006000>> :> 0
  @@ <<40712800, -74006000, 40712800, -434006000>> :> 0
  @@ <<40713200, -74006000, 40712800, -434006000>> :> 44478
  @@ <<40712800, -74007200, 40712800, -434006000>> :> 101141
  @@ <<40720000, -74006000, 40712800, -434006000>> :> 800603
  @@ <<40712800, -434006000, 40712800, -74006000>> :> 0
  @@ <<40712800, -434006000, 40713200, -74006000>> :> 44478
  @@ <<40712800, -434006000, 40712800, -74007200>> :> 101141
  @@ <<40712800, -434006000, 40720000, -74006000>> :> 800603
  @@ <<40712800, -434006000, 40712800, -434006000>> :> 0
  @@ <<2500000, 0, 2500000, 0>> :> 0
  @@ <<2500000, 0, -2500000, 180000000>> :> NaN
  @@ <<-2500000, 180000000, 2500000, 0>> :> NaN
  @@ <<-2500000, 180000000, -2500000, 180000000>> :> 0

calculateDistance(lat1, lng1, lat2, lng2) ==
  HaversineMm[<<lat1, lng1, lat2, lng2>>]

\* x <= y on doubles: false when an operand is NaN.
LessOrEqual(x, y) == x # NaN /\ y # NaN /\ x <= y

isWithinPerimeterStrict(userLat, userLng, facilityLat, facilityLng, perimeterRadius) ==
  LET distance == calculateDistance(userLat, userLng, facilityLat, facilityLng)
  IN  distance # NaN /\ distance < perimeterRadius

isWithinPerimeter(userLat, userLng, facilityLat, facilityLng, perimeterRadius) ==
  LET distance == calculateDistance(userLat, userLng, facilityLat, facilityLng)
  IN  LessOrEqual(distance, perimeterRadius)

----------------------------------------------------------------------------
(* src/lib/graphql/resolvers.ts: helpers *)

MsPerHour == 1000 * 60 * 60

MsPerHundredth == MsPerHour \div 100

\* Elapsed times of this model that lie exactly halfway between two hundredths
\* of an hour and for which the double product (ms / 3600000) * 100 falls just
\* below the half (1.005 * 100 = 100.49999999999999), so that Math.round goes
\* down.  At the other halfway value of the model (26982000) the product is
\* exact (749.5) and Math.round goes up.
HalfwayBelow == {3618000}

calculateShiftHoursTruncated(clockIn, clockOut) ==
  (clockOut - clockIn) \div MsPerHundredth

\* Math.round(hours * 100), that is the result times 100: Math.round is
\* floor(x + 1/2).
calculateShiftHours(clockIn, clockOut) ==
  LET ms == clockOut - clockIn
      halfUp == (ms + MsPerHundredth \div 2) \div MsPerHundredth
  IN  IF ms \in HalfwayBelow THEN halfUp - 1 ELSE halfUp

----------------------------------------------------------------------------
(* The record store *)

\* prisma.shift.findFirst({ where: { userId, clockOutTime: null } }) gives no
\* orderBy: it answers with any matching row, or null (0 here).
OpenShifts(u) ==
  {i \in 1..Len(shifts) : shifts[i].userId = u /\ shifts[i].clockOutTime = {}}

FindFirstIgnoringClockOut(u) ==
  IF {i \in 1..Len(shifts) : shifts[i].userId = u} = {} THEN {0}
  ELSE {i \in 1..Len(shifts) : shifts[i].userId = u}

FindFirstOpen(u) ==
  IF OpenShifts(u) = {} THEN {0} ELSE OpenShifts(u)

\* prisma.shift.create: the row clockIn inserts.  validatedAgainst is a
\* history field: the perimeter the handler checked the coordinate against.
NewShift(u, t, p, perimeter) ==
  [userId |-> u, clockInTime |-> t, clockInAt |-> p,
   clockOutTime |-> {}, clockOutAt |-> {}, totalHours |-> {},
   validatedAgainst |-> perimeter]

ClosedShiftWithoutHours(s, t, p, hours) ==
  [s EXCEPT !.clockOutTime = {t}, !.clockOutAt = {p}]

\* prisma.shift.update: the row clockOut leaves.
ClosedShift(s, t, p, hours) ==
  [s EXCEPT !.clockOutTime = {t}, !.clockOutAt = {p}, !.totalHours = {hours}]

----------------------------------------------------------------------------
(* The resolvers *)

NoOrg == [lat |-> 0, lng |-> 0, radius |-> -1]

IdleReq ==
  [pc |-> "new", kind |-> "in", user |-> "w1", point |-> Edge,
   org |-> NoOrg, tested |-> TRUE, shift |-> 0, at |-> 0, hours |-> 0,
   result |-> "pending"]

\* include: { organization: true } gives the organization row, or null (NoOrg)
\* for a user whose organizationId is null.
OrganizationOf(u) ==
  IF UserTable[u].organizationId \in OrgIds
  THEN orgs[UserTable[u].organizationId]
  ELSE NoOrg

\* clockIn and clockOut have the statement
\*   if (!user.organization) throw new Error('Organization not found for user')
\* before the perimeter check; clockInByAuth0Id and clockOutByAuth0Id do not.
HasOrganizationTest(op) == op \in {"clockIn", "clockOut"}

\* What a handler does with user.organization null: it throws at its test,
\* or, without the test, at the property access user.organization.locationLat
\* (a TypeError).
NullOrganization(tested) ==
  IF tested THEN "OrganizationNotFound" ELSE "TypeError"

\* getUser / prisma.user.findUnique, and the role check that follows it in
\* clockIn and clockOut.  Every identity of the model resolves to a user.
ResolveUser(op, u) ==
  IF op \in {"clockIn", "clockOut"} /\ UserTable[u].role # "CARE_WORKER"
  THEN "OnlyCareWorkers"
  ELSE "proceed"

ClockInDecisionPerimeterFirst(existing, org, p, tested) ==
  IF ~isWithinPerimeter(p.lat, p.lng, org.lat, org.lng, org.radius)
  THEN "OutsidePerimeter"
  ELSE IF existing # 0 THEN "AlreadyClockedIn" ELSE "proceed"

ClockInDecisionNoPerimeter(existing, org, p, tested) ==
  IF existing # 0 THEN "AlreadyClockedIn" ELSE "proceed"

\* clockIn and clockInByAuth0Id after findFirst has answered: the checks in
\* the order of the source.
ClockInDecision(existing, org, p, tested) ==
  IF existing # 0 THEN "AlreadyClockedIn"
  ELSE IF org = NoOrg THEN NullOrganization(tested)
  ELSE IF ~isWithinPerimeter(p.lat, p.lng, org.lat, org.lng, org.radius)
  THEN "OutsidePerimeter"
  ELSE "proceed"

ClockOutDecisionNoPerimeter(current, org, p, tested) ==
  IF current = 0 THEN "NoActiveShift" ELSE "proceed"

ClockOutDecisionStrict(current, org, p, tested) ==
  IF current = 0 THEN "NoActiveShift"
  ELSE IF ~isWithinPerimeterStrict(p.lat, p.lng, org.lat, org.lng, org.radius)
  THEN "OutsidePerimeter"
  ELSE "proceed"

\* clockOut and clockOutByAuth0Id after findFirst has answered.
ClockOutDecision(current, org, p, tested) ==
  IF current = 0 THEN "NoActiveShift"
  ELSE IF org = NoOrg THEN NullOrganization(tested)
  ELSE IF ~isWithinPerimeter(p.lat, p.lng, org.lat, org.lng, org.radius)
  THEN "OutsidePerimeter"
  ELSE "proceed"

\* Past the user lookup the two clock-in resolvers run the same statements, and
\* so do the two clock-out resolvers, but for the test of user.organization:
\* a request remembers which pair it is of and, where user.organization is
\* null, whether its resolver has the test (with an organization the test
\* never fires and is remembered as TRUE).
KindOf(op) == IF op \in ClockInOps THEN "in" ELSE "out"

Decision(kind, found, org, p, tested) ==
  IF kind = "in" THEN ClockInDecision(found, org, p, tested)
  ELSE ClockOutDecision(found, org, p, tested)

ShiftUpdatedWithoutShift(u, id) == [kind |-> "SHIFT_UPDATED", user |-> u, shift |-> 0]

\* The payloads of the two publish calls: the shift row the write has returned
\* (its id here) and the user.
ShiftUpdated(u, id) == [kind |-> "SHIFT_UPDATED", user |-> u, shift |-> id]
StaffStatusChanged(u) == [kind |-> "STAFF_STATUS_CHANGED", user |-> u, shift |-> 0]

----------------------------------------------------------------------------
(* The browser of one care worker: the LocationTracker at its construction *)

\* Number of positions the browser reports to a tracker that is checked for
\* its alerts.
MaxSamples == 4

\* Number of positions the browser reports to a tracker that is checked for
\* its synchronisation.
MaxSyncSamples == 3

\* Number of syncCachedLocations calls a behaviour contains.
MaxPasses == 2

Passes == 1..MaxPasses

\* private maxCacheSize = 100
maxCacheSize == 100

\* Number of positions the browser reports to a tracker that is checked for
\* its cache: enough to exceed maxCacheSize.
MaxCacheSamples == 102

\* Number of LocationTracker objects constructed, one page load after another.
MaxInstances == 2

\* The constructor arguments: userId, and organizationLat, organizationLng and
\* perimeterRadius, which stay what they were at construction.
TrackerUser == "w1"
TrackerPerimeter == PerimeterAtFacility

IdlePass == [pc |-> "idle", queue |-> <<>>]

\* setInterval(() => { this.syncCachedLocations() }, 60000) in startOfflineSync:
\* the first interval the page registers.
SyncTimer == [id |-> 1, callback |-> "syncCachedLocations"]

\* The field initializers and the constructor: loadLocationCache finds no item,
\* startOfflineSync registers the 60-second interval.
InitBrowser ==
  /\ isInsidePerimeter = FALSE
  /\ lastKnownLocation = {}
  /\ locationCache = <<>>
  /\ localStorage = <<>>
  /\ alerts = <<>>
  /\ checks = {}
  /\ online = TRUE
  /\ passes = [q \in Passes |-> IdlePass]
  /\ delivered = <<>>
  /\ seen = 0
  /\ instances = 1
  /\ watchId = {}
  /\ backgroundInterval = {}
  /\ syncInterval = {SyncTimer.id}
  /\ watches = {}
  /\ intervals = {SyncTimer}
  /\ locationUpdates = {}

----------------------------------------------------------------------------
(* Actions *)

\* The shift table is empty, or holds the open shift that a clockIn of w1 from
\* Edge at the clock's first reading has left.
InitialShifts ==
  {<<>>, <<NewShift("w1", Instants[1], Edge, PerimeterAtFacility)>>}

Init ==
  /\ now = 1
  /\ orgs = InitialOrgs
  /\ shifts \in InitialShifts
  /\ req = [r \in Reqs |-> IdleReq]
  /\ events = <<>>
  /\ InitBrowser

\* A request arrives and its handler runs to its first shift query: the user
\* is read together with the organization (include: { organization: true }),
\* so the perimeter the handler uses is the one of this moment.
\* Requests are numbered in the order of their arrival.
Begin(r, op, u, p) ==
  /\ req[r].pc = "new"
  /\ \A q \in Reqs : q < r => req[q].pc # "new"
  /\ LET res == ResolveUser(op, u) IN
     req' = [req EXCEPT ![r] =
               [@ EXCEPT !.kind = KindOf(op), !.user = u, !.point = p,
                         !.org = OrganizationOf(u),
                         !.tested = HasOrganizationTest(op) \/ OrganizationOf(u) # NoOrg,
                         !.pc = IF res = "proceed" THEN "findShift" ELSE "done",
                         !.result = IF res = "proceed" THEN "pending" ELSE res]]
  /\ UNCHANGED <<now, orgs, shifts, events>>
  /\ UNCHANGED trackerVars

\* findFirst answers and the handler runs to its write: the open-shift check,
\* the perimeter check, new Date() and, in clockOut, calculateShiftHours.
\* new Date() gives the latest reading or a later one; a handler that throws
\* does not read the clock.
FindShift(r) ==
  /\ req[r].pc = "findShift"
  /\ \E found \in FindFirstOpen(req[r].user), i \in now..Len(Instants) :
       LET res == Decision(req[r].kind, found, req[r].org, req[r].point, req[r].tested)
           t == Instants[i]
       IN  /\ res # "proceed" => i = now
           /\ now' = i
           /\ req' = [req EXCEPT ![r] =
                     [@ EXCEPT !.shift = found,
                               !.at = IF res = "proceed" THEN t ELSE 0,
                               !.hours = IF res = "proceed" /\ req[r].kind = "out"
                                         THEN calculateShiftHours(shifts[found].clockInTime, t)
                                         ELSE 0,
                               !.pc = IF res = "proceed" THEN "write" ELSE "done",
                               !.result = IF res = "proceed" THEN "pending" ELSE res]]
  /\ UNCHANGED <<orgs, shifts, events>>
  /\ UNCHANGED trackerVars

\* prisma.shift.create (clockIn) or prisma.shift.update where id (clockOut).
Write(r) ==
  /\ req[r].pc = "write"
  /\ IF req[r].kind = "in"
     THEN /\ shifts' = Append(shifts,
                 NewShift(req[r].user, req[r].at, req[r].point, req[r].org))
          /\ req' = [req EXCEPT ![r].pc = "publish", ![r].shift = Len(shifts) + 1,
                                 ![r].at = 0]
     ELSE /\ shifts' = [shifts EXCEPT ![req[r].shift] =
                 ClosedShift(@, req[r].at, req[r].point, req[r].hours)]
          /\ req' = [req EXCEPT ![r].pc = "publish", ![r].at = 0, ![r].hours = 0]
  /\ UNCHANGED <<now, orgs, events>>
  /\ UNCHANGED trackerVars

\* The two pubsub.publish calls and the return.
Publish(r) ==
  /\ req[r].pc = "publish"
  /\ events' = events \o <<ShiftUpdated(req[r].user, req[r].shift),
                           StaffStatusChanged(req[r].user)>>
  /\ req' = [req EXCEPT ![r].pc = "done", ![r].result = "ok"]
  /\ UNCHANGED <<now, orgs, shifts>>
  /\ UNCHANGED trackerVars

\* updatePerimeter and updatePerimeterByAuth0Id: a manager sets the perimeter
\* of the manager's organization.
UpdatePerimeter(u, input) ==
  /\ UserTable[u].role = "MANAGER"
  /\ orgs' = [orgs EXCEPT ![UserTable[u].organizationId] = input]
  /\ UNCHANGED <<now, shifts, req, events>>
  /\ UNCHANGED trackerVars

Next ==
  \/ \E r \in Reqs, op \in Ops, u \in Users, p \in Points : Begin(r, op, u, p)
  \/ \E r \in Reqs : FindShift(r)
  \/ \E r \in Reqs : Write(r)
  \/ \E r \in Reqs : Publish(r)
  \/ \E u \in Users, input \in PerimeterInputs : UpdatePerimeter(u, input)

Spec == Init /\ [][Next]_vars

----------------------------------------------------------------------------
(* Properties of the shift ledger *)

IsClosed(s) == s.clockOutTime # {}

Within(p, perimeter) ==
  isWithinPerimeter(p.lat, p.lng, perimeter.lat, perimeter.lng, perimeter.radius)

\* This step is request r's findFirst step (the answer and the checks after it).
FindShiftStepOf(r) == req[r].pc = "findShift" /\ req'[r].pc # "findShift"

\* This step is request r's write.
WriteStepOf(r) == req[r].pc = "write" /\ req'[r].pc # "write"

\* C1: every user has at most one shift whose clockOutTime is null.
C1_AtMostOneOpenShift ==
  \A u \in Users : Cardinality(OpenShifts(u)) <= 1

\* C2: when two clock-in requests of one care worker, both from inside the perimeter,
\* have ended and the user's shifts are only what these two have left (none
\* was there before, none has been closed), exactly one of the two has
\* succeeded and the other has failed with AlreadyClockedIn.
C2_ExactlyOneConcurrentClockInSucceeds ==
  \A r1, r2 \in Reqs :
    (/\ r1 # r2
     /\ req[r1].kind = "in" /\ req[r2].kind = "in"
     /\ req[r1].user = req[r2].user
     /\ UserTable[req[r1].user].role = "CARE_WORKER"
     /\ req[r1].pc = "done" /\ req[r2].pc = "done"
     /\ Within(req[r1].point, req[r1].org) /\ Within(req[r2].point, req[r2].org)
     /\ \A i \in 1..Len(shifts) :
          shifts[i].userId = req[r1].user
          => /\ ~IsClosed(shifts[i])
             /\ \E r \in {r1, r2} : req[r].result = "ok" /\ req[r].shift = i)
    => \/ req[r1].result = "ok" /\ req[r2].result = "AlreadyClockedIn"
       \/ req[r1].result = "AlreadyClockedIn" /\ req[r2].result = "ok"

\* C3: a clock-in whose findFirst is answered while the user has an open shift
\* fails with AlreadyClockedIn, whatever the submitted coordinate, and ends
\* there: the step leaves the shift table and the published events unchanged.
C3_ClockInWhileOpenFails ==
  [][\A r \in Reqs :
       (FindShiftStepOf(r) /\ req[r].kind = "in" /\ OpenShifts(req[r].user) # {})
       => /\ req'[r].result = "AlreadyClockedIn"
          /\ req'[r].pc = "done"
          /\ shifts' = shifts
          /\ events' = events]_vars

C3_Witness ==
  \E r1, r2 \in Reqs :
    /\ req[r1].kind = "in" /\ req[r1].result = "AlreadyClockedIn"
    /\ Within(req[r1].point, req[r1].org)
    /\ req[r2].kind = "in" /\ req[r2].result = "AlreadyClockedIn"
    /\ ~Within(req[r2].point, req[r2].org)

\* C4: a clock-in of a user without open shift from a coordinate outside the
\* perimeter the handler has read fails with OutsidePerimeter and ends there:
\* no shift is created and nothing is published.
C4_ClockInOutsideFails ==
  [][\A r \in Reqs :
       (/\ FindShiftStepOf(r) /\ req[r].kind = "in"
        /\ OpenShifts(req[r].user) = {}
        /\ ~Within(req[r].point, req[r].org))
       => /\ req'[r].result = "OutsidePerimeter"
          /\ req'[r].pc = "done"
          /\ shifts' = shifts
          /\ events' = events]_vars

C4_Witness ==
  \E r \in Reqs :
    /\ req[r].kind = "in" /\ req[r].result = "OutsidePerimeter"
    /\ req[r].pc = "done" /\ req[r].shift = 0

\* C5: a clock-out of a user without open shift fails with NoActiveShift and
\* ends there: no shift is modified and nothing is published.
C5_ClockOutWithoutShiftFails ==
  [][\A r \in Reqs :
       (FindShiftStepOf(r) /\ req[r].kind = "out" /\ OpenShifts(req[r].user) = {})
       => /\ req'[r].result = "NoActiveShift"
          /\ req'[r].pc = "done"
          /\ shifts' = shifts
          /\ events' = events]_vars

C5_Witness ==
  \E r \in Reqs :
    /\ req[r].kind = "out" /\ req[r].result = "NoActiveShift"
    /\ \E i \in 1..Len(shifts) : shifts[i].userId = req[r].user /\ IsClosed(shifts[i])

\* C6: a clock-out of a user with an open shift from a coordinate outside the
\* perimeter the handler has read fails with OutsidePerimeter and leaves every
\* shift as it is; and a step closes a shift only as the write of a clock-out
\* whose coordinate is within the perimeter its handler has read.
C6_ClockOutOutsideKeepsShiftOpen ==
  [][/\ \A r \in Reqs :
          (/\ FindShiftStepOf(r) /\ req[r].kind = "out"
           /\ OpenShifts(req[r].user) # {}
           /\ ~Within(req[r].point, req[r].org))
          => /\ req'[r].result = "OutsidePerimeter"
             /\ req'[r].pc = "done"
             /\ shifts' = shifts
     /\ \A i \in 1..Len(shifts) :
          (~IsClosed(shifts[i]) /\ IsClosed(shifts'[i]))
          => \E r \in Reqs :
               /\ WriteStepOf(r) /\ req[r].kind = "out" /\ req[r].shift = i
               /\ Within(req[r].point, req[r].org)]_vars

C6_Witness ==
  \E r1, r2 \in Reqs :
    /\ r1 < r2
    /\ req[r1].kind = "out" /\ req[r1].result = "OutsidePerimeter"
    /\ req[r2].kind = "out" /\ req[r2].result = "ok"
    /\ req[r1].user = req[r2].user
    /\ IsClosed(shifts[req[r2].shift])

C8_TotalHoursIffClockOut ==
  \A i \in 1..Len(shifts) :
    (shifts[i].totalHours # {}) <=> (shifts[i].clockOutTime # {})

C8_Witness ==
  \E i \in 1..Len(shifts) : IsClosed(shifts[i]) /\ shifts[i].totalHours # {}

\* C9: for every closed shift, totalHours is a hundredth of an hour nearest to
\* the elapsed milliseconds between clockInTime and clockOutTime, is not
\* negative, and is 8.5 for 8 h 30 min (09:00:00 to 17:30:00).
C9_TotalHoursIsRoundedElapsed ==
  \A i \in 1..Len(shifts) :
    IsClosed(shifts[i]) =>
      \A out \in shifts[i].clockOutTime :
        /\ shifts[i].totalHours # {}
        /\ \A h \in shifts[i].totalHours :
             LET ms == out - shifts[i].clockInTime IN
             /\ h >= 0
             /\ h * MsPerHundredth - ms <= MsPerHundredth \div 2
             /\ ms - h * MsPerHundredth <= MsPerHundredth \div 2
             /\ (ms = 30600000 => h = 850)

C9_Witness ==
  \E i \in 1..Len(shifts) :
    /\ shifts[i].clockOutTime = {shifts[i].clockInTime + 30600000}
    /\ shifts[i].totalHours = {850}

\* C10: for every closed shift, clockInTime is strictly earlier than
\* clockOutTime.
C10_ClockInBeforeClockOut ==
  \A i \in 1..Len(shifts) :
    \A out \in shifts[i].clockOutTime : shifts[i].clockInTime < out

\* C11: a step creates a shift only as the write of a clock-in whose coordinate
\* is within the perimeter its handler has read, no step removes a shift, and
\* no step changes a shift whose clockOutTime is set: its clockOutTime,
\* clock-out coordinate and totalHours stay as the first clock-out wrote them.
C11_ClosedShiftNeverChanges ==
  [][/\ Len(shifts') >= Len(shifts)
     /\ Len(shifts') > Len(shifts)
        => \E r \in Reqs :
             /\ WriteStepOf(r) /\ req[r].kind = "in"
             /\ Within(req[r].point, req[r].org)
             /\ Len(shifts') = Len(shifts) + 1
     /\ \A i \in 1..Len(shifts) :
          IsClosed(shifts[i]) => shifts'[i] = shifts[i]]_vars

\* C13: the step in which a clock request succeeds appends to the published
\* events exactly a shift-updated event with the shift the request has written
\* and a staff-status-changed event of its user, and that shift is in the shift
\* table before the step (closed, for a clock-out); no other step publishes, a
\* request publishes nothing in the step in which it fails, and a failed
\* request stays failed.
C13_SuccessPublishesBothEvents ==
  [][/\ \A r \in Reqs :
          (req[r].result # "ok" /\ req'[r].result = "ok")
          => /\ req[r].shift \in 1..Len(shifts)
             /\ shifts[req[r].shift].userId = req[r].user
             /\ req[r].kind = "out" => IsClosed(shifts[req[r].shift])
             /\ events' = events \o
                  <<[kind |-> "SHIFT_UPDATED", user |-> req[r].user,
                     shift |-> req[r].shift],
                    [kind |-> "STAFF_STATUS_CHANGED", user |-> req[r].user,
                     shift |-> 0]>>
     /\ events' # events
        => \E r \in Reqs : req[r].result # "ok" /\ req'[r].result = "ok"
     /\ \A r \in Reqs :
          /\ (req[r].result = "pending" /\ req'[r].result \notin {"pending", "ok"})
             => events' = events
          /\ req[r].result \notin {"pending", "ok"}
             => req'[r].result = req[r].result]_vars

C13_Witness ==
  \E r1, r2 \in Reqs :
    /\ req[r1].kind = "in" /\ req[r1].result = "ok"
    /\ req[r2].kind = "out" /\ req[r2].result = "ok"
    /\ Len(events) = 4

----------------------------------------------------------------------------
(* A care worker without organization *)

\* As Next, with the requests of the user without organization.
NextOrg ==
  \/ \E r \in Reqs, op \in Ops, u \in AllUsers, p \in Points : Begin(r, op, u, p)
  \/ \E r \in Reqs : FindShift(r)
  \/ \E r \in Reqs : Write(r)
  \/ \E r \in Reqs : Publish(r)
  \/ \E u \in Users, input \in PerimeterInputs : UpdatePerimeter(u, input)

SpecOrg == Init /\ [][NextOrg]_vars

\* C12: a clock-in or clock-out of a user without organization that no earlier
\* check stops (the clock-in finds no open shift, the clock-out finds one) fails
\* with OrganizationNotFound and ends there, leaving every shift as it is.
C12_NoOrganizationFails ==
  [][\A r \in Reqs :
       (/\ FindShiftStepOf(r)
        /\ req[r].org = NoOrg
        /\ \/ req[r].kind = "in" /\ OpenShifts(req[r].user) = {}
           \/ req[r].kind = "out" /\ OpenShifts(req[r].user) # {})
       => /\ req'[r].result = "OrganizationNotFound"
          /\ req'[r].pc = "done"
          /\ shifts' = shifts]_vars

----------------------------------------------------------------------------
(* The record store rejects a write *)

AfterWriteErrorPublishes == "publish"

\* Where a handler continues when its awaited write rejects: the resolvers have
\* no try/catch, the error leaves the handler.
AfterWriteError == "done"

\* prisma.shift.create or prisma.shift.update rejects (the store is
\* unavailable): the one statement has not been applied.
WriteFails(r) ==
  /\ req[r].pc = "write"
  /\ req' = [req EXCEPT ![r].pc = AfterWriteError, ![r].result = "WriteFailed",
                         ![r].at = 0, ![r].hours = 0]
  /\ UNCHANGED <<now, orgs, shifts, events>>
  /\ UNCHANGED trackerVars

\* The clock requests from Edge, with the perimeter left as it is, and writes
\* that the record store rejects.
NextWriteFailure ==
  \/ \E r \in Reqs, op \in Ops, u \in Users, p \in {Edge} : Begin(r, op, u, p)
  \/ \E r \in Reqs : FindShift(r)
  \/ \E r \in Reqs : Write(r)
  \/ \E r \in Reqs : WriteFails(r)
  \/ \E r \in Reqs : Publish(r)

SpecWriteFailure == Init /\ [][NextWriteFailure]_vars

\* C14: the step in which a request's write is rejected leaves the shift table
\* and the published events as they are and ends the request; the request
\* takes no step after it, so it creates, closes and publishes nothing.
C14_FailedWriteLeavesNoPartialState ==
  [][\A r \in Reqs :
       /\ (req[r].pc = "write" /\ req'[r].result = "WriteFailed")
          => /\ shifts' = shifts
             /\ events' = events
             /\ req'[r].pc = "done"
       /\ req[r].result = "WriteFailed"
          => /\ req'[r] = req[r]
             /\ events' # events
                => \E q \in Reqs : q # r /\ req[q].pc = "publish" /\ req'[q].result = "ok"
             /\ shifts' # shifts
                => \E q \in Reqs : q # r /\ req[q].pc = "write" /\ req'[q].pc = "publish"]_vars

\* Both a clock-in and a clock-out have had their write rejected; the shift the
\* clock-out had found is still open.
C14_Witness ==
  \E r1, r2 \in Reqs :
    /\ req[r1].kind = "in" /\ req[r1].result = "WriteFailed"
    /\ req[r2].kind = "out" /\ req[r2].result = "WriteFailed"
    /\ req[r2].shift \in OpenShifts(req[r2].user)
    /\ events = <<>>

----------------------------------------------------------------------------
(* LocationTracker: geofence alerts *)

\* A position the browser reports: n is its arrival number (it stands for the
\* timestamp new Date() of the LocationData), at its coordinate.
LocationData(n, p) == [n |-> n, at |-> p]

GeofenceAlert(alertType, n) == [alertType |-> alertType, n |-> n]

checkGeofenceWithoutMemory(wasInsidePerimeter, isNowInsidePerimeter, n) ==
  IF isNowInsidePerimeter THEN <<GeofenceAlert("ENTERED", n)>>
  ELSE <<GeofenceAlert("EXITED", n)>>

\* checkGeofence: the alerts it hands to publishGeofenceAlert before it calls
\* checkAutoClockOut.
checkGeofence(wasInsidePerimeter, isNowInsidePerimeter, n) ==
  (IF ~wasInsidePerimeter /\ isNowInsidePerimeter
   THEN <<GeofenceAlert("ENTERED", n)>> ELSE <<>>)
  \o (IF wasInsidePerimeter /\ ~isNowInsidePerimeter
      THEN <<GeofenceAlert("EXITED", n)>> ELSE <<>>)

\* JSON.stringify, then JSON.parse: the timestamp, a Date in the tracker,
\* is a string in the parsed item.
saveLocationCache(cache) ==
  [i \in DOMAIN cache |-> [cache[i] EXCEPT !.timestamp = "string"]]

cacheLocationKeepingOldest(cache, location, isOnline) ==
  LET pushed == Append(cache, [n |-> location.n, at |-> location.at,
                               timestamp |-> "Date", synced |-> isOnline])
  IN  IF Len(pushed) > maxCacheSize
      THEN SubSeq(pushed, 1, maxCacheSize)
      ELSE pushed

\* cacheLocation: push, then slice(-maxCacheSize) when the cache has grown
\* beyond maxCacheSize.
cacheLocation(cache, location, isOnline) ==
  LET pushed == Append(cache, [n |-> location.n, at |-> location.at,
                               timestamp |-> "Date", synced |-> isOnline])
  IN  IF Len(pushed) > maxCacheSize
      THEN SubSeq(pushed, Len(pushed) - maxCacheSize + 1, Len(pushed))
      ELSE pushed

\* handleLocationUpdate, for a position from watchPosition or from the
\* background getCurrentPosition: checkGeofence (which, on an exit, calls
\* checkAutoClockOut: that runs to its fetch), cacheLocation with
\* saveLocationCache, lastKnownLocation, and publishLocationUpdate, which
\* starts a POST to /api/location-update and does not await it.
handleLocationUpdate(p) ==
  LET location == LocationData(seen + 1, p)
      wasInsidePerimeter == isInsidePerimeter
      isNowInsidePerimeter ==
        isWithinPerimeter(p.lat, p.lng, TrackerPerimeter.lat, TrackerPerimeter.lng,
                          TrackerPerimeter.radius)
  IN  /\ seen' = seen + 1
      /\ isInsidePerimeter' = isNowInsidePerimeter
      /\ alerts' = alerts \o checkGeofence(wasInsidePerimeter, isNowInsidePerimeter,
                                          location.n)
      /\ checks' = IF wasInsidePerimeter /\ ~isNowInsidePerimeter
                   THEN checks \cup {[n |-> location.n, pc |-> "fetch", found |-> 0]}
                   ELSE checks
      /\ locationCache' = cacheLocation(locationCache, location, online)
      /\ localStorage' = saveLocationCache(locationCache')
      /\ lastKnownLocation' = {location}
      /\ locationUpdates' = locationUpdates \cup {[n |-> location.n, pc |-> "fetch"]}
      /\ UNCHANGED <<online, passes, delivered, instances>>
      /\ UNCHANGED serverVars
      /\ UNCHANGED timerVars

\* The server answers the query of checkAutoClockOut: currentShiftByAuth0Id
\* is prisma.shift.findFirst where { userId, clockOutTime: null }.
AutoClockOutQuery(c) ==
  /\ c \in checks /\ c.pc = "fetch"
  /\ \E found \in FindFirstOpen(TrackerUser) :
       checks' = (checks \ {c}) \cup {[c EXCEPT !.pc = "json", !.found = found]}
  /\ UNCHANGED <<isInsidePerimeter, lastKnownLocation, locationCache, localStorage,
                 alerts, online, passes, delivered, seen, instances>>
  /\ UNCHANGED serverVars
  /\ UNCHANGED timerVars
  /\ UNCHANGED locationUpdates

AutoClockOutReplyClosingShift(c) ==
  /\ c \in checks /\ c.pc = "json"
  /\ alerts' = IF c.found # 0
               THEN Append(alerts, GeofenceAlert("AUTO_CLOCK_OUT", c.n))
               ELSE alerts
  /\ checks' = checks \ {c}
  /\ shifts' = IF c.found # 0
               THEN [shifts EXCEPT ![c.found] =
                       ClosedShift(@, Instants[now], Far, 0)]
               ELSE shifts
  /\ UNCHANGED <<isInsidePerimeter, lastKnownLocation, locationCache, localStorage,
                 online, passes, delivered, seen, instances>>
  /\ UNCHANGED <<now, orgs, req, events>>
  /\ UNCHANGED timerVars
  /\ UNCHANGED locationUpdates

\* checkAutoClockOut after its awaits: with a shift in the answer it shows
\* the notification and hands an AUTO_CLOCK_OUT alert, carrying the location
\* of the exit, to publishGeofenceAlert.
AutoClockOutReply(c) ==
  /\ c \in checks /\ c.pc = "json"
  /\ alerts' = IF c.found # 0
               THEN Append(alerts, GeofenceAlert("AUTO_CLOCK_OUT", c.n))
               ELSE alerts
  /\ checks' = checks \ {c}
  /\ UNCHANGED <<isInsidePerimeter, lastKnownLocation, locationCache, localStorage,
                 online, passes, delivered, seen, instances>>
  /\ UNCHANGED serverVars
  /\ UNCHANGED timerVars
  /\ UNCHANGED locationUpdates

\* The tracker of w1 beside the clock requests of w1 through clockIn and
\* clockOut from Edge.
NextTracker ==
  \/ \E p \in Points : seen < MaxSamples /\ handleLocationUpdate(p)
  \/ \E c \in checks : AutoClockOutQuery(c)
  \/ \E c \in checks : AutoClockOutReply(c)
  \/ \E r \in Reqs, op \in {"clockIn", "clockOut"} : Begin(r, op, TrackerUser, Edge)
  \/ \E r \in Reqs : FindShift(r)
  \/ \E r \in Reqs : Write(r)
  \/ \E r \in Reqs : Publish(r)

\* As Init, with the server clock at its last reading: the times of the shifts
\* play no part in what the tracker does.
InitTracker ==
  /\ now = Len(Instants)
  /\ orgs = InitialOrgs
  /\ shifts \in InitialShifts
  /\ req = [r \in Reqs |-> IdleReq]
  /\ events = <<>>
  /\ InitBrowser

SpecTracker == InitTracker /\ [][NextTracker]_vars

WithinTracker(p) == Within(p, TrackerPerimeter)

\* C15: the step in which a tracker handles its first position (it has no
\* last known location yet) hands no alert to publishGeofenceAlert, and leaves
\* isInsidePerimeter at what isWithinPerimeter gives for that position.
C15_NoAlertForFirstSample ==
  [][(lastKnownLocation = {} /\ lastKnownLocation' # {})
     => /\ alerts' = alerts
        /\ \A first \in lastKnownLocation' :
             isInsidePerimeter' = WithinTracker(first.at)]_vars

\* C16: the step in which a tracker handles a position after its first hands
\* to publishGeofenceAlert exactly an ENTERED alert when the previous position
\* was outside the perimeter and this one is inside, exactly an EXITED alert
\* when the previous was inside and this one is outside, and nothing when the
\* two agree; and no other step hands over an ENTERED or EXITED alert.
C16_AlertExactlyOnAlternation ==
  [][/\ \A previous \in lastKnownLocation : \A current \in lastKnownLocation' :
          current # previous
          => alerts' = alerts \o
               (IF ~WithinTracker(previous.at) /\ WithinTracker(current.at)
                THEN <<[alertType |-> "ENTERED", n |-> current.n]>>
                ELSE IF WithinTracker(previous.at) /\ ~WithinTracker(current.at)
                THEN <<[alertType |-> "EXITED", n |-> current.n]>>
                ELSE <<>>)
     /\ lastKnownLocation' = lastKnownLocation
        => \/ alerts' = alerts
           \/ /\ Len(alerts') = Len(alerts) + 1
              /\ SubSeq(alerts', 1, Len(alerts)) = alerts
              /\ alerts'[Len(alerts')].alertType = "AUTO_CLOCK_OUT"]_vars

\* Positions inside, outside, outside, inside: an exit at the second, nothing
\* at the third, an entry at the fourth.
C16_Witness ==
  /\ seen = 4
  /\ \E i, j \in 1..Len(alerts) :
       /\ alerts[i] = [alertType |-> "EXITED", n |-> 2]
       /\ alerts[j] = [alertType |-> "ENTERED", n |-> 4]
  /\ \A i \in 1..Len(alerts) : alerts[i].n # 3

\* C17: every AUTO_CLOCK_OUT alert comes after the EXITED alert of the same
\* position and before every alert of a later position, and it is raised only
\* when the query of its check has found an open shift of the worker.
C17_AutoClockOutFollowsItsExit ==
  /\ \A k \in 1..Len(alerts) :
       alerts[k].alertType = "AUTO_CLOCK_OUT"
       => /\ \E j \in 1..(k - 1) :
               alerts[j] = [alertType |-> "EXITED", n |-> alerts[k].n]
          /\ \A j \in 1..(k - 1) : alerts[j].n <= alerts[k].n
  /\ \A c \in checks :
       /\ c.pc = "json" /\ c.found # 0 => shifts[c.found].userId = TrackerUser
       /\ \E j \in 1..Len(alerts) : alerts[j] = [alertType |-> "EXITED", n |-> c.n]

\* C18: a step of the tracker (a position handled, a check answered, an alert
\* raised) leaves the shift table as it is, and a step closes a shift only as
\* the write of a clock-out of the shift's user.
C18_TrackerLeavesShiftsAlone ==
  [][/\ (seen' # seen \/ checks' # checks \/ alerts' # alerts) => shifts' = shifts
     /\ \A i \in 1..Len(shifts) :
          (~IsClosed(shifts[i]) /\ IsClosed(shifts'[i]))
          => \E r \in Reqs :
               /\ WriteStepOf(r) /\ req[r].kind = "out" /\ req[r].shift = i
               /\ req[r].user = shifts[i].userId]_vars

\* An AUTO_CLOCK_OUT alert has been raised and the worker's shift is open.
C18_Witness ==
  /\ \E k \in 1..Len(alerts) : alerts[k].alertType = "AUTO_CLOCK_OUT"
  /\ OpenShifts(TrackerUser) # {}
  /\ checks = {}

----------------------------------------------------------------------------
(* LocationTracker: the location cache *)

\* The page is loaded again and a LocationTracker is constructed: the field
\* initializers, and startOfflineSync: loadLocationCache, which takes the cache
\* from the parsed item of localStorage, and the 60-second interval.  What the
\* previous page was awaiting or had registered is gone with it.
Construct ==
  /\ instances' = instances + 1
  /\ isInsidePerimeter' = FALSE
  /\ lastKnownLocation' = {}
  /\ locationCache' = localStorage
  /\ checks' = {}
  /\ passes' = [q \in Passes |-> IdlePass]
  /\ watchId' = {}
  /\ backgroundInterval' = {}
  /\ syncInterval' = {SyncTimer.id}
  /\ watches' = {}
  /\ intervals' = {SyncTimer}
  /\ UNCHANGED <<localStorage, alerts, online, delivered, seen, locationUpdates>>
  /\ UNCHANGED serverVars

\* A tracker that is handed positions at Edge, MaxCacheSamples in all, over
\* one page load or several.
NextCache ==
  \/ \E p \in {Edge} : seen < MaxCacheSamples /\ handleLocationUpdate(p)
  \/ instances < MaxInstances /\ Construct

SpecCache == Init /\ [][NextCache]_vars

----------------------------------------------------------------------------
(* LocationTracker: synchronisation of the cache *)

\* this.locationCache.filter(loc => !loc.synced): the entries are named by
\* their arrival numbers.
Unsynced(cache) ==
  LET kept == SelectSeq(cache, LAMBDA e : ~e.synced)
  IN  [i \in 1..Len(kept) |-> kept[i].n]

\* location.synced = true, on the entry object the pass holds.
MarkSynced(cache, n) ==
  [i \in DOMAIN cache |->
     IF cache[i].n = n THEN [cache[i] EXCEPT !.synced = TRUE] ELSE cache[i]]

AfterUploadErrorContinue(queue) == Tail(queue)

\* catch (error) { ...; break; }: nothing of the pass's list is left to upload.
AfterUploadError(queue) == <<>>

\* A pass with the entries it has still to upload: it calls uploadLocation for
\* the first of them and awaits it, or, with none left, it has left the loop:
\* saveLocationCache, and the pass ends.
Continue(q, queue, cache) ==
  IF queue = <<>>
  THEN /\ passes' = [passes EXCEPT ![q] = [pc |-> "done", queue |-> <<>>]]
       /\ localStorage' = saveLocationCache(cache)
  ELSE /\ passes' = [passes EXCEPT ![q] = [pc |-> "fetch", queue |-> queue]]
       /\ UNCHANGED localStorage

\* Passes are numbered in the order of their start.
CanStart(q) ==
  /\ passes[q].pc = "idle"
  /\ \A earlier \in Passes : earlier < q => passes[earlier].pc # "idle"

\* syncCachedLocations called by the 60-second interval while the browser is
\* online (offline it returns at once).
syncCachedLocations(q) ==
  /\ CanStart(q)
  /\ online
  /\ Continue(q, Unsynced(locationCache), locationCache)
  /\ UNCHANGED <<isInsidePerimeter, lastKnownLocation, locationCache, alerts,
                 checks, online, delivered, seen, instances>>
  /\ UNCHANGED serverVars
  /\ UNCHANGED timerVars
  /\ UNCHANGED locationUpdates

\* The browser comes back online: the listener of the 'online' event calls
\* syncCachedLocations.
GoOnline(q) ==
  /\ CanStart(q)
  /\ ~online
  /\ online' = TRUE
  /\ Continue(q, Unsynced(locationCache), locationCache)
  /\ UNCHANGED <<isInsidePerimeter, lastKnownLocation, locationCache, alerts,
                 checks, delivered, seen, instances>>
  /\ UNCHANGED serverVars
  /\ UNCHANGED timerVars
  /\ UNCHANGED locationUpdates

GoOffline ==
  /\ online
  /\ online' = FALSE
  /\ UNCHANGED <<isInsidePerimeter, lastKnownLocation, locationCache, localStorage,
                 alerts, checks, passes, delivered, seen, instances>>
  /\ UNCHANGED serverVars
  /\ UNCHANGED timerVars
  /\ UNCHANGED locationUpdates

\* The request of uploadLocation reaches the server.
Deliver(q) ==
  /\ passes[q].pc = "fetch"
  /\ delivered' = Append(delivered, Head(passes[q].queue))
  /\ passes' = [passes EXCEPT ![q].pc = "response"]
  /\ UNCHANGED <<isInsidePerimeter, lastKnownLocation, locationCache, localStorage,
                 alerts, checks, online, seen, instances>>
  /\ UNCHANGED serverVars
  /\ UNCHANGED timerVars
  /\ UNCHANGED locationUpdates

\* The fetch of uploadLocation resolves with response.ok: the entry is marked
\* and the loop goes on.
UploadOk(q) ==
  /\ passes[q].pc = "response"
  /\ locationCache' = MarkSynced(locationCache, Head(passes[q].queue))
  /\ Continue(q, Tail(passes[q].queue), locationCache')
  /\ UNCHANGED <<isInsidePerimeter, lastKnownLocation, alerts, checks, online,
                 delivered, seen, instances>>
  /\ UNCHANGED serverVars
  /\ UNCHANGED timerVars
  /\ UNCHANGED locationUpdates

\* The fetch of uploadLocation rejects, or resolves with a response that is
\* not ok: uploadLocation throws.  The request has reached the server or not.
UploadFails(q) ==
  /\ passes[q].pc \in {"fetch", "response"}
  /\ Continue(q, AfterUploadError(passes[q].queue), locationCache)
  /\ UNCHANGED <<isInsidePerimeter, lastKnownLocation, locationCache, alerts,
                 checks, online, delivered, seen, instances>>
  /\ UNCHANGED serverVars
  /\ UNCHANGED timerVars
  /\ UNCHANGED locationUpdates

\* A tracker that is handed positions at Far (outside the perimeter: no
\* alerts), online and offline, and its synchronisation passes.
NextSync ==
  \/ \E p \in {Far} : seen < MaxSyncSamples /\ handleLocationUpdate(p)
  \/ GoOffline
  \/ \E q \in Passes : GoOnline(q)
  \/ \E q \in Passes : syncCachedLocations(q)
  \/ \E q \in Passes : Deliver(q)
  \/ \E q \in Passes : UploadOk(q)
  \/ \E q \in Passes : UploadFails(q)

SpecSync == Init /\ [][NextSync]_vars

\* Entry n is in the cache and not marked as synced.
IsUnsynced(n) ==
  \E i \in 1..Len(locationCache) : locationCache[i].n = n /\ ~locationCache[i].synced

\* C20: whenever the server receives an entry, every entry that arrived
\* earlier and needed synchronisation (it has been uploaded at some time, or
\* is still unsynced in the cache) has been received before.
C20_UploadsInArrivalOrder ==
  \A i \in 1..Len(delivered) :
    \A n \in 1..(delivered[i] - 1) :
      (IsUnsynced(n) \/ \E j \in 1..Len(delivered) : delivered[j] = n)
      => \E j \in 1..(i - 1) : delivered[j] = n

\* Two passes have run at once over the same two entries, and both entries
\* have been received twice.
C20_Witness ==
  /\ Len(delivered) = 4
  /\ delivered[1] = delivered[2]
  /\ \E i \in 1..Len(delivered) : delivered[i] > delivered[1]
  /\ \A q \in Passes : passes[q].pc = "done"

----------------------------------------------------------------------------
(* Coordinates outside the ranges of latitude and longitude *)

\* A latitude in [-90, 90] and a longitude in [-180, 180], in micro-degrees.
InRange(p) ==
  /\ -90000000 <= p.lat /\ p.lat <= 90000000
  /\ -180000000 <= p.lng /\ p.lng <= 180000000

\* Number of positions the browser reports to a tracker that is checked for
\* what it does with a coordinate out of range.
MaxRangeSamples == 3

\* A tracker that is handed positions at Edge, at Far and at Wrapped.
NextSamples ==
  \/ \E p \in {Edge, Far, Wrapped} : seen < MaxRangeSamples /\ handleLocationUpdate(p)
  \/ \E c \in checks : AutoClockOutQuery(c)
  \/ \E c \in checks : AutoClockOutReply(c)

SpecSamples == InitTracker /\ [][NextSamples]_vars

\* C21: the step in which the tracker is handed a position either handles a
\* position whose coordinate is in range (it becomes the last known
\* location), or drops the position: isInsidePerimeter, the alerts, the last
\* known location and the cache stay as they are.
C21_InvalidSampleIsDropped ==
  [][seen' = seen + 1
     => \/ \E l \in lastKnownLocation' : l.n = seen' /\ InRange(l.at)
        \/ /\ isInsidePerimeter' = isInsidePerimeter
           /\ alerts' = alerts
           /\ lastKnownLocation' = lastKnownLocation
           /\ locationCache' = locationCache]_vars

\* The clock requests of w1 through clockIn and clockOut, from Edge and from
\* Wrapped.
NextRange ==
  \/ \E r \in Reqs, op \in {"clockIn", "clockOut"}, p \in {Edge, Wrapped} :
       Begin(r, op, "w1", p)
  \/ \E r \in Reqs : FindShift(r)
  \/ \E r \in Reqs : Write(r)
  \/ \E r \in Reqs : Publish(r)

SpecRange == Init /\ [][NextRange]_vars

\* C22: a clock request that submits a coordinate out of range does not reach
\* its write and does not succeed, and no shift row carries a coordinate out
\* of range, neither as the place of its clock-in nor of its clock-out.
C22_OutOfRangeCoordinateRejected ==
  /\ \A r \in Reqs :
       (req[r].pc \in {"write", "publish"} \/ req[r].result = "ok")
       => InRange(req[r].point)
  /\ \A i \in 1..Len(shifts) :
       /\ InRange(shifts[i].clockInAt)
       /\ \A p \in shifts[i].clockOutAt : InRange(p)

----------------------------------------------------------------------------
(* The subscriptions *)

\* The subscription operations that clients have started before the first
\* event: who has started it, the field, and the arguments the client has
\* given (userId, isManager and organizationId are arguments of the operation).
\* The transport (graphql-ws) accepts every connection.
Subscriptions ==
  {[subscriber |-> "m1", field |-> "shiftUpdated", isManager |-> TRUE],
   [subscriber |-> "m2", field |-> "shiftUpdated", isManager |-> TRUE],
   [subscriber |-> "w2", field |-> "staffStatusChanged", isManager |-> FALSE],
   [subscriber |-> "w2", field |-> "geofenceAlert", isManager |-> TRUE]}

\* The trigger a field's subscribe function listens to.
Trigger(field) ==
  CASE field = "shiftUpdated" -> "SHIFT_UPDATED"
    [] field = "staffStatusChanged" -> "STAFF_STATUS_CHANGED"
    [] field = "geofenceAlert" -> "GEOFENCE_ALERT"

\* The filter function of a field's subscribe: shiftUpdated and
\* staffStatusChanged are not wrapped in withFilter, geofenceAlert lets pass
\* what the operation's argument isManager says.
FilterFn(field, payload, variables) ==
  IF field = "geofenceAlert" THEN variables.isManager ELSE TRUE

\* What the async iterator of a subscription yields: the payloads published to
\* its trigger that pass its filter, in the order of their publication.
Received(s) ==
  SelectSeq(events, LAMBDA e : e.kind = Trigger(s.field) /\ FilterFn(s.field, e, s))

\* C23: every event a subscriber receives concerns a user of the subscriber's
\* organization, and a subscriber who receives a geofence event holds the
\* role MANAGER.
C23_EventsReachOnlyPermittedSubscribers ==
  \A s \in Subscriptions :
    \A i \in 1..Len(Received(s)) :
      /\ UserTable[Received(s)[i].user].organizationId
           = UserTable[s.subscriber].organizationId
      /\ Received(s)[i].kind = "GEOFENCE_ALERT"
           => UserTable[s.subscriber].role = "MANAGER"

----------------------------------------------------------------------------
(* The perimeter requests *)

PerimeterOps == {"updatePerimeter", "updatePerimeterByAuth0Id"}

\* The user row a perimeter request works with.  updatePerimeter calls getUser:
\* the user of the verified token, who is the sender.  updatePerimeterByAuth0Id
\* calls prisma.user.findUnique with its argument auth0Id and reads nothing of
\* the request's context.
PerimeterUser(op, sender, auth0Id) ==
  IF op = "updatePerimeter" THEN sender ELSE auth0Id

UpdatePerimeterDecisionNoRoleCheck(u) ==
  IF UserTable[u].organizationId \notin OrgIds THEN "NoOrganization" ELSE "proceed"

\* The two tests both resolvers make of the user row.
UpdatePerimeterDecision(u) ==
  IF UserTable[u].role # "MANAGER" THEN "AccessDenied"
  ELSE IF UserTable[u].organizationId \notin OrgIds THEN "NoOrganization"
  ELSE "proceed"

\* A perimeter request from its arrival to its return: the user row is read,
\* tested, and prisma.organization.update where id = user.organizationId sets
\* the three columns to the input.  The request remembers the user it has
\* worked with and, as org, its input.
UpdatePerimeterRequest(r, op, sender, auth0Id, input) ==
  /\ req[r].pc = "new"
  /\ \A q \in Reqs : q < r => req[q].pc # "new"
  /\ LET u == PerimeterUser(op, sender, auth0Id)
         res == UpdatePerimeterDecision(u)
     IN  /\ req' = [req EXCEPT ![r] =
                     [@ EXCEPT !.kind = "perimeter", !.user = u, !.org = input,
                               !.pc = "done",
                               !.result = IF res = "proceed" THEN "ok" ELSE res]]
         /\ orgs' = IF res = "proceed"
                    THEN [orgs EXCEPT ![UserTable[u].organizationId] = input]
                    ELSE orgs
  /\ UNCHANGED <<now, shifts, events>>
  /\ UNCHANGED trackerVars

\* Perimeter requests of every user, with a perimeter at each of three centres.
NextPerimeter ==
  \E r \in Reqs, op \in PerimeterOps, sender \in EveryUser, auth0Id \in EveryUser,
     input \in PerimeterInputs \cup {PerimeterAtAntipode} :
    UpdatePerimeterRequest(r, op, sender, auth0Id, input)

SpecPerimeter == Init /\ [][NextPerimeter]_vars

\* This step is perimeter request r, from its arrival to its return.
PerimeterStepOf(r) ==
  req[r].pc = "new" /\ req'[r].pc = "done" /\ req'[r].kind = "perimeter"

\* C24: a perimeter request of a user who does not hold the role MANAGER
\* fails with the access-denied error and leaves every organization row as it
\* is; a perimeter request of a manager sets the row of the manager's own
\* organization to the input and leaves every other row as it is; and no
\* other step changes an organization row.  The user of a request is the one
\* it identifies: by its token (updatePerimeter) or by its argument auth0Id
\* (updatePerimeterByAuth0Id).
C24_OnlyManagersChangeOwnPerimeter ==
  [][/\ \A r \in Reqs :
          PerimeterStepOf(r)
          => IF UserTable[req'[r].user].role # "MANAGER"
             THEN req'[r].result = "AccessDenied" /\ orgs' = orgs
             ELSE /\ req'[r].result = "ok"
                  /\ orgs' = [orgs EXCEPT ![UserTable[req'[r].user].organizationId]
                                            = req'[r].org]
     /\ orgs' # orgs => \E r \in Reqs : PerimeterStepOf(r)]_vars

\* The manager of the first organization has moved its perimeter to Far, the
\* second organization's is as it was, and a request of the care worker has
\* been denied.
C24_Witness ==
  /\ orgs["o1"] = PerimeterAtFar
  /\ orgs["o2"] = PerimeterAtAntipode
  /\ \E r1, r2 \in Reqs :
       /\ req[r1].kind = "perimeter" /\ req[r1].user = "m1" /\ req[r1].result = "ok"
       /\ req[r2].kind = "perimeter" /\ req[r2].user = "w1"
       /\ req[r2].result = "AccessDenied"

----------------------------------------------------------------------------
(* calculateDistance and isWithinPerimeter under the clock-in requests *)

\* Number of clock-in requests that are checked for the distance they compute.
MaxDistanceReqs == 2

\* The perimeters the manager of the first organization sets: around Facility
\* with a radius of 1 mm, of the distance to Edge less 1 mm, and of that
\* distance; and around Far.
DistancePerimeters ==
  {[lat |-> Facility.lat, lng |-> Facility.lng, radius |-> radius] :
     radius \in {1, 101140, 101141}}
  \cup {PerimeterAtFar}

\* Clock-in requests of w1 from around Facility, while the manager sets the
\* perimeter of their organization, and of w2 from Origin and Antipode.
NextDistance ==
  \/ \E r \in Reqs, p \in {Facility, Edge, Far} :
       r <= MaxDistanceReqs /\ Begin(r, "clockIn", "w1", p)
  \/ \E r \in Reqs, p \in {Origin, Antipode} :
       r <= MaxDistanceReqs /\ Begin(r, "clockIn", "w2", p)
  \/ \E r \in Reqs : FindShift(r)
  \/ \E r \in Reqs : Write(r)
  \/ \E r \in Reqs : Publish(r)
  \/ \E input \in DistancePerimeters : UpdatePerimeter("m1", input)

SpecDistance == InitTracker /\ [][NextDistance]_vars

\* calculateDistance from the coordinate of request r to the centre of the
\* perimeter the request has read.
DistanceOf(r) ==
  calculateDistance(req[r].point.lat, req[r].point.lng, req[r].org.lat, req[r].org.lng)

\* C25: a clock-in request that finds no open shift fails with
\* OutsidePerimeter exactly when the distance from its coordinate to the
\* centre of the perimeter is not less than or equal to the radius, and goes
\* on to its write otherwise; in particular it goes on when the distance is
\* equal to the radius, and when the distance is 0 and the radius positive.
C25_WithinIffDistanceAtMostRadius ==
  [][\A r \in Reqs :
       (FindShiftStepOf(r) /\ req[r].kind = "in" /\ req'[r].shift = 0)
       => /\ req'[r].result = "OutsidePerimeter"
               <=> ~LessOrEqual(DistanceOf(r), req[r].org.radius)
          /\ req'[r].result # "OutsidePerimeter" => req'[r].pc = "write"
          /\ DistanceOf(r) = req[r].org.radius => req'[r].pc = "write"
          /\ (DistanceOf(r) = 0 /\ req[r].org.radius > 0) => req'[r].pc = "write"]_vars

\* A clock-in from the boundary of its perimeter has succeeded and one from
\* 1 mm beyond the boundary of its perimeter has failed.
C25_Witness ==
  \E r1, r2 \in Reqs :
    /\ req[r1].kind = "in" /\ req[r1].pc = "done" /\ req[r1].result = "ok"
    /\ DistanceOf(r1) = req[r1].org.radius /\ DistanceOf(r1) > 0
    /\ req[r2].kind = "in" /\ req[r2].pc = "done"
    /\ req[r2].result = "OutsidePerimeter"
    /\ DistanceOf(r2) = req[r2].org.radius + 1

\* A clock-in from the centre of a perimeter of radius 1 mm has succeeded.
CentreWithinSmallestRadius ==
  \E r \in Reqs :
    /\ req[r].kind = "in" /\ req[r].pc = "done" /\ req[r].result = "ok"
    /\ DistanceOf(r) = 0 /\ req[r].org.radius = 1

\* x == y on doubles: false when an operand is NaN.
Equal(x, y) == x # NaN /\ y # NaN /\ x = y

\* C26: for the coordinate of every clock-in request and the centre of the
\* perimeter it has read, both in range, calculateDistance gives the same
\* number in either order of the two, a number that is at least 0, and gives
\* 0 from each of the two to itself.
C26_DistanceSymmetricAndZeroOnIdentical ==
  \A r \in Reqs :
    (req[r].pc # "new" /\ req[r].kind = "in" /\ InRange(req[r].point) /\ InRange(req[r].org))
    => LET a == req[r].point
           b == req[r].org
       IN  /\ Equal(calculateDistance(a.lat, a.lng, b.lat, b.lng),
                    calculateDistance(b.lat, b.lng, a.lat, a.lng))
           /\ LessOrEqual(0, calculateDistance(a.lat, a.lng, b.lat, b.lng))
           /\ Equal(calculateDistance(a.lat, a.lng, a.lat, a.lng), 0)
           /\ Equal(calculateDistance(b.lat, b.lng, b.lat, b.lng), 0)

----------------------------------------------------------------------------
(* The role of the user who clocks in *)

\* C27: every shift row belongs to a user whose role is CARE_WORKER, and no
\* clock-in request of a user with another role reaches its write or
\* succeeds, whichever of the two clock-in resolvers has received it.
C27_OnlyCareWorkersHaveShifts ==
  /\ \A i \in 1..Len(shifts) : UserTable[shifts[i].userId].role = "CARE_WORKER"
  /\ \A r \in Reqs :
       (req[r].kind = "in" /\ UserTable[req[r].user].role # "CARE_WORKER")
       => req[r].pc \notin {"write", "publish"} /\ req[r].result # "ok"

----------------------------------------------------------------------------
(* LocationTracker: the synced tag of the cache entries *)

\* Number of positions the browser reports to a tracker that is checked for
\* the tags of its cache entries.
MaxTaggedSamples == 1

\* The fetch of publishLocationUpdate ends: the server has answered, or the
\* fetch has rejected and the catch has logged the error.  The tracker takes
\* nothing from either.
LocationUpdateReply(u, outcome) ==
  /\ u \in locationUpdates /\ u.pc = "fetch"
  /\ locationUpdates' = (locationUpdates \ {u}) \cup {[u EXCEPT !.pc = outcome]}
  /\ UNCHANGED <<isInsidePerimeter, lastKnownLocation, locationCache, localStorage,
                 alerts, checks, online, passes, delivered, seen, instances>>
  /\ UNCHANGED serverVars
  /\ UNCHANGED timerVars

\* A tracker that is handed positions at Far, online and offline, its
\* synchronisation passes and the POSTs of publishLocationUpdate.
NextTagged ==
  \/ \E p \in {Far} : seen < MaxTaggedSamples /\ handleLocationUpdate(p)
  \/ \E u \in locationUpdates, outcome \in {"ok", "error"} : LocationUpdateReply(u, outcome)
  \/ GoOffline
  \/ \E q \in Passes : GoOnline(q)
  \/ \E q \in Passes : syncCachedLocations(q)
  \/ \E q \in Passes : Deliver(q)
  \/ \E q \in Passes : UploadOk(q)
  \/ \E q \in Passes : UploadFails(q)

SpecTagged == Init /\ [][NextTagged]_vars

\* C28: every cache entry that is tagged synced has reached the server with
\* success: through uploadLocation, or through the POST of
\* publishLocationUpdate.
C28_SyncedEntriesWereUploaded ==
  \A i \in 1..Len(locationCache) :
    locationCache[i].synced
    => \/ \E j \in 1..Len(delivered) : delivered[j] = locationCache[i].n
       \/ [n |-> locationCache[i].n, pc |-> "ok"] \in locationUpdates

\* C28 once no POST of publishLocationUpdate is in flight: what TLC shows for
\* C28 itself is the entry tagged at its arrival, before any answer.
SyncedEntriesWereUploadedAtRest ==
  (\A u \in locationUpdates : u.pc # "fetch") => C28_SyncedEntriesWereUploaded

----------------------------------------------------------------------------
(* LocationTracker: startTracking and stopTracking *)

\* Number of watchPosition registrations the browser holds at one time.
MaxWatches == 2

\* Number of positions the browser reports to a tracker that is started and
\* stopped.
MaxStopSamples == 2

\* watchPosition and setInterval return an id that is not in use.
FreshId(used) == CHOOSE k \in 1..(Cardinality(used) + 1) : k \notin used

\* startTracking: watchPosition, whose id goes to watchId, and
\* startBackgroundTracking, whose setInterval id goes to backgroundInterval.
\* Neither looks at what the two fields hold; syncInterval is left alone.
startTracking ==
  LET watch == FreshId(watches)
      timer == FreshId({t.id : t \in intervals})
  IN  /\ watches' = watches \cup {watch}
      /\ watchId' = {watch}
      /\ intervals' = intervals \cup {[id |-> timer, callback |-> "getCurrentPosition"]}
      /\ backgroundInterval' = {timer}
      /\ UNCHANGED <<isInsidePerimeter, lastKnownLocation, locationCache, localStorage,
                     alerts, checks, online, passes, delivered, seen, instances,
                     syncInterval, locationUpdates>>
      /\ UNCHANGED serverVars

\* stopTracking: clearWatch(watchId), clearInterval(backgroundInterval),
\* clearInterval(syncInterval), and the three fields are null.  The listener
\* of the 'online' event stays, and so does what the tracker is awaiting.
stopTracking ==
  /\ watches' = watches \ watchId
  /\ watchId' = {}
  /\ intervals' = {t \in intervals : t.id \notin (backgroundInterval \cup syncInterval)}
  /\ backgroundInterval' = {}
  /\ syncInterval' = {}
  /\ UNCHANGED <<isInsidePerimeter, lastKnownLocation, locationCache, localStorage,
                 alerts, checks, online, passes, delivered, seen, instances,
                 locationUpdates>>
  /\ UNCHANGED serverVars

\* A registered watch reports a position: its callback is handleLocationUpdate.
WatchPosition(w, p) ==
  /\ w \in watches
  /\ handleLocationUpdate(p)

\* A registered background interval fires while the document is hidden, and
\* getCurrentPosition reports a position: its callback is
\* handleLocationUpdate.
BackgroundPosition(t, p) ==
  /\ t \in intervals /\ t.callback = "getCurrentPosition"
  /\ handleLocationUpdate(p)

\* A tracker that is started and stopped, beside an open shift of its worker
\* or none.
NextStop ==
  \/ Cardinality(watches) < MaxWatches /\ startTracking
  \/ stopTracking
  \/ \E w \in watches, p \in Points : seen < MaxStopSamples /\ WatchPosition(w, p)
  \/ \E t \in intervals, p \in Points : seen < MaxStopSamples /\ BackgroundPosition(t, p)
  \/ \E c \in checks : AutoClockOutQuery(c)
  \/ \E c \in checks : AutoClockOutReply(c)

SpecStop == InitTracker /\ [][NextStop]_vars

\* C30: from the return of stopTracking to the next call of startTracking
\* (watchId is null before and after the step) the tracker handles no
\* position and hands no alert to publishGeofenceAlert.
C30_NothingAfterStopTracking ==
  [][(watchId = {} /\ watchId' = {}) => (seen' = seen /\ alerts' = alerts)]_vars

\* C30 for the positions alone.
NoPositionAfterStopTracking ==
  [][(watchId = {} /\ watchId' = {}) => seen' = seen]_vars

\* C30 for a tracker that is never started twice without a stop between.
NothingAfterStopTrackingSingleStart ==
  [][(watchId = {} /\ watchId' = {} /\ Cardinality(watches) = 0)
     => (seen' = seen /\ alerts' = alerts)]_vars

----------------------------------------------------------------------------
(* LocationTracker: synchronisation of a tracker that is stopped and started *)

\* Number of positions the browser reports to a tracker that is checked for
\* the upload of every unsynced entry.
MaxLiveSamples == 1

\* Number of uploads the server has received after which no upload fails any
\* more.
MaxFailedUploads == 2

\* The 60-second interval of startOfflineSync fires, as long as it is
\* registered: its callback is syncCachedLocations.
SyncTimerFires(q) ==
  /\ SyncTimer \in intervals
  /\ syncCachedLocations(q)

\* The promise of a syncCachedLocations call has settled.
PassReturns(q) ==
  /\ passes[q].pc = "done"
  /\ passes' = [passes EXCEPT ![q] = IdlePass]
  /\ UNCHANGED <<isInsidePerimeter, lastKnownLocation, locationCache, localStorage,
                 alerts, checks, online, delivered, seen, instances, locationUpdates>>
  /\ UNCHANGED serverVars
  /\ UNCHANGED timerVars

\* A tracker that is started and stopped and handed positions at Far, online
\* and offline, with its synchronisation passes.
NextLive ==
  \/ Cardinality(watches) < MaxWatches /\ startTracking
  \/ stopTracking
  \/ \E w \in watches : seen < MaxLiveSamples /\ WatchPosition(w, Far)
  \/ GoOffline
  \/ \E q \in Passes : GoOnline(q)
  \/ \E q \in Passes : SyncTimerFires(q)
  \/ \E q \in Passes : Deliver(q)
  \/ \E q \in Passes : UploadOk(q)
  \/ \E q \in Passes : Len(delivered) < MaxFailedUploads /\ UploadFails(q)
  \/ \E q \in Passes : PassReturns(q)

\* The timers of the browser are fair: an interval that stays registered
\* fires again and again; and every request gets its answer and every call
\* returns.  What the user and the network do (startTracking, stopTracking,
\* the positions, online and offline) is under no condition.
FairLive ==
  /\ WF_vars(\E q \in Passes : SyncTimerFires(q))
  /\ \A q \in Passes : WF_vars(Deliver(q))
  /\ \A q \in Passes :
       WF_vars(UploadOk(q) \/ (Len(delivered) < MaxFailedUploads /\ UploadFails(q)))
  /\ \A q \in Passes : WF_vars(PassReturns(q))

SpecLive == Init /\ [][NextLive]_vars /\ FairLive

\* From some time on the browser is online and no upload fails.
OnlineAndUploadsSucceed ==
  /\ <>[]online
  /\ <>[][\A q \in Passes : ~UploadFails(q)]_vars

\* C29: when from some time on the browser is online and no upload fails,
\* every entry that is unsynced in the cache is tagged synced later (or has
\* left the cache), whether or not the tracker has been stopped and started.
C29_UnsyncedEntriesAreEventuallySynced ==
  OnlineAndUploadsSucceed
  => \A n \in 1..MaxLiveSamples : IsUnsynced(n) ~> ~IsUnsynced(n)

\* C29 for a tracker that is never stopped.
UnsyncedEntriesAreEventuallySyncedUnlessStopped ==
  (OnlineAndUploadsSucceed /\ []((SyncTimer \in intervals)))
  => \A n \in 1..MaxLiveSamples : IsUnsynced(n) ~> ~IsUnsynced(n)

====
